---- MODULE Spec2Model ----
(***************************************************************************)
(* FaissIndexer (src/executor.py): a vector index made of an append-only   *)
(* ANN engine (faiss), a key-value document store (lmdb), the offset       *)
(* bookkeeping in _metas and a buffer of updated documents.                *)
(*                                                                         *)
(* The source reads self._storage and self._indexer, which it never        *)
(* assigns; they are modelled as working handles to the store and the      *)
(* engine the constructor creates (self._kv_storage, self._vec_indexer),   *)
(* open for every request.                                                 *)
(*                                                                         *)
(* Vectors are 2-dimensional with integer coordinates.  Unit vectors are   *)
(* kept in fixed point, scaled by Scale, so an inner product of two unit   *)
(* vectors is the cosine times Scale.                                      *)
(***************************************************************************)
EXTENDS Integers, Sequences, FiniteSets, TLC

VARIABLES kv_storage, vec_indexer, doc_ids, doc_id_to_offset, delete_marks,
          buffer_indexer, last, conc

vars == <<kv_storage, vec_indexer, doc_ids, doc_id_to_offset, delete_marks,
          buffer_indexer, last, conc>>

\* ------------------------------------------------------------------ bounds
MaxTotal == 2
MaxBuffer == 2
MaxTopK == 2

\* ---------------------------------------------------------- input domains
\* Document identifiers, in the byte order in which lmdb keeps its keys.
IdOrder == <<"a", "b", "c">>
Ids == {IdOrder[i] : i \in 1..Len(IdOrder)}

\* Embeddings a request may carry; <<0, 2>> is not of unit length.
Embeddings == {<<1, 0>>, <<0, 2>>}

\* The documents index requests carry; "c" is never indexed, so a request
\* naming it names an unknown document.
IndexDocs == {[id |-> "a", embedding |-> <<1, 0>>],
              [id |-> "b", embedding |-> <<0, 2>>]}

\* The documents update requests carry: a new embedding for "a" and for "b",
\* and the unknown "c".
UpdateDocs == {[id |-> "a", embedding |-> <<0, 2>>],
               [id |-> "b", embedding |-> <<1, 0>>],
               [id |-> "c", embedding |-> <<1, 0>>]}

\* lmdb's answer for a key it does not hold (None).
NoRec == [id |-> "", embedding |-> <<>>]

Range(s) == {s[i] : i \in 1..Len(s)}

\* A request's batch: empty, one item or two items.
Batches(S) == {<<>>} \cup {<<x>> : x \in S} \cup {<<x, y>> : x \in S, y \in S}

\* ------------------------------------------------------------- the metric
Scale == 1000

ISqrt(n) == CHOOSE r \in 0..n : r * r <= n /\ (r + 1) * (r + 1) > n

\* faiss.normalize_L2: the vector divided by its L2 norm.
normalize_L2(v) ==
    LET norm == ISqrt(v[1] * v[1] + v[2] * v[2])
    IN  <<(v[1] * Scale) \div norm, (v[2] * Scale) \div norm>>

\* METRIC_INNER_PRODUCT over unit vectors (metric = 'cosine').
InnerProduct(u, v) == (u[1] * v[1] + u[2] * v[2]) \div Scale

\* The distance DocumentArray.match computes for metric 'cosine': 1 - cosine.
CosineDistance(u, v) == Scale - InnerProduct(normalize_L2(u), normalize_L2(v))

\* ----------------------------------------------------------- lmdb, per call
\* Transaction.put(key, value, overwrite): stores the value and answers True
\* unless the key is present and overwrite is False.
put(kv, key, value, overwrite) ==
    LET written == overwrite \/ kv[key] = NoRec
    IN  [kv |-> IF written THEN [kv EXCEPT ![key] = value] ELSE kv,
         added |-> written]

\* Transaction.replace(key, value): stores the value and answers the value the
\* key held before, None when it held none.
replace(kv, key, value) ==
    [kv |-> [kv EXCEPT ![key] = value], old |-> kv[key]]

\* Transaction.delete(key): answers whether the key was present.
txn_delete(kv, key) ==
    [kv |-> [kv EXCEPT ![key] = NoRec], deleted |-> kv[key] # NoRec]

\* Transaction.get(key) followed by Document(buffer): Document(None) is a new
\* empty document.
get_doc(kv, doc_id) == kv[doc_id]

\* --------------------------------------------------------- the index state
\* The in-memory structures a handler works on; kv is the transaction's view.
State ==
    [kv |-> kv_storage, vecs |-> vec_indexer, doc_ids |-> doc_ids,
     doc_id_to_offset |-> doc_id_to_offset, delete_marks |-> delete_marks,
     buffer |-> buffer_indexer]

total_docs(st) == Len(st.vecs)

RECURSIVE SumSeq(_)
SumSeq(s) == IF s = <<>> THEN 0 ELSE s[1] + SumSeq(Tail(s))

total_deletes(st) == SumSeq(st.delete_marks)

size(st) == total_docs(st) - total_deletes(st)

\* One round of the loop of _add_vecs_with_ids: offsets are 0-based.
AddMeta(st, idx, doc_id) ==
    [st EXCEPT
        !.doc_ids = Append(@, doc_id),
        !.delete_marks = Append(@, 0),
        !.doc_id_to_offset =
            [d \in DOMAIN @ \cup {doc_id} |-> IF d = doc_id THEN idx ELSE @[d]]]

RECURSIVE AddMetaLoop(_, _, _)
AddMetaLoop(st, idx, ids) ==
    IF ids = <<>> THEN st
    ELSE AddMetaLoop(AddMeta(st, idx, Head(ids)), idx + 1, Tail(ids))

\* The first offset the loop of _add_vecs_with_ids hands out: total_docs is
\* read after the engine has taken the batch.
FirstOffset(sizeBefore, sizeAfter) == sizeAfter

add_vecs_with_ids(st, embeddings, ids) ==
    IF Len(ids) = 0 THEN st
    ELSE LET added == [st EXCEPT !.vecs = @ \o [i \in 1..Len(embeddings) |->
                                               normalize_L2(embeddings[i])]]
         IN  AddMetaLoop(added,
                         FirstOffset(total_docs(st), total_docs(added)), ids)

\* ------------------------------------------------------------------ update
\* UpdateItem with the buffer append moved before the existence check.
UpdateItem_AppendFirst(acc, doc) ==
    LET r == replace(acc.st.kv, doc.id, doc)
    IN  IF r.old = NoRec
        THEN [acc EXCEPT !.st.kv = r.kv, !.st.buffer = Append(@, doc),
                         !.err = "ValueError", !.log = Append(@, "missing")]
        ELSE [acc EXCEPT !.st.kv = r.kv,
                         !.st.buffer = Append(@, doc),
                         !.log = Append(@, "updated")]

\* One document of the loop of update.  acc.err stops the loop.
UpdateItem(acc, doc) ==
    LET r == replace(acc.st.kv, doc.id, doc)
    IN  IF r.old = NoRec
        THEN [acc EXCEPT !.st.kv = r.kv, !.err = "ValueError",
                         !.log = Append(@, "missing")]
        ELSE [acc EXCEPT !.st.kv = r.kv,
                         !.st.buffer = Append(@, doc),
                         !.log = Append(@, "updated")]

RECURSIVE UpdateLoop(_, _)
UpdateLoop(acc, docs) ==
    IF docs = <<>> \/ acc.err # "none" THEN acc
    ELSE UpdateLoop(UpdateItem(acc, Head(docs)), Tail(docs))

\* Leaving "with env.begin(write=True)": commit, or abort when an exception
\* passes through, which restores the store as it was at begin.
TxnEnd(before, acc) ==
    IF acc.err = "none" THEN acc ELSE [acc EXCEPT !.st.kv = before.kv]

update(st, docs) ==
    TxnEnd(st, UpdateLoop([st |-> st, err |-> "none", log |-> <<>>], docs))

\* ------------------------------------------------------------------- index
\* IndexItem with the embedding normalised in place before the document is
\* serialised.
IndexItem_StoresNormalized(acc, doc) ==
    LET r == put(acc.st.kv, doc.id,
                 [doc EXCEPT !.embedding = normalize_L2(@)], TRUE)
    IN  [acc EXCEPT !.st.kv = r.kv,
                    !.embeddings = Append(@, doc.embedding),
                    !.new_ids = Append(@, doc.id),
                    !.log = Append(@, "added")]

\* One document of the loop of index.
IndexItem(acc, doc) ==
    LET r == put(acc.st.kv, doc.id, doc, TRUE)
    IN  IF r.added
        THEN [acc EXCEPT !.st.kv = r.kv,
                         !.embeddings = Append(@, doc.embedding),
                         !.new_ids = Append(@, doc.id),
                         !.log = Append(@, "added")]
        ELSE [acc EXCEPT !.st.kv = r.kv,
                         !.updated_docs = Append(@, doc),
                         !.log = Append(@, "exists")]

RECURSIVE IndexLoop(_, _)
IndexLoop(acc, docs) ==
    IF docs = <<>> THEN acc
    ELSE IndexLoop(IndexItem(acc, Head(docs)), Tail(docs))

index(st, docs) ==
    LET acc == IndexLoop([st |-> st, embeddings |-> <<>>, new_ids |-> <<>>,
                          updated_docs |-> <<>>, log |-> <<>>], docs)
        stored == add_vecs_with_ids(acc.st, acc.embeddings, acc.new_ids)
        upd == update(stored, acc.updated_docs)
    IN  [st |-> upd.st, err |-> upd.err, log |-> acc.log]

\* _add_vecs_with_ids with the bookkeeping written before the engine call, so
\* that a failing add leaves it behind.
AddVecsFault_MetasFirst(st, embeddings, ids) ==
    AddMetaLoop(st, total_docs(st), ids)

\* _add_vecs_with_ids when np.stack or self._indexer.add raises (lines
\* 252-257): the engine has taken nothing (ntotal is unchanged) and the loop
\* of lines 259-262 is never reached.
AddVecsFault(st, embeddings, ids) == st

\* The statements of index that can fail on their environment.
IndexFaults == {"put", "add", "commit"}

\* index when one of its calls raises. A put that raises (a full map) ends
\* the loop before _add_vecs_with_ids is reached; a failing add ends the
\* request inside the transaction; a failing commit is the exit of the with
\* block of line 98, after _add_vecs_with_ids (line 112) has returned. In
\* each case the exception aborts the transaction and update (line 114) is
\* not reached.
index_fault(st, docs, fault) ==
    LET acc == IndexLoop([st |-> st, embeddings |-> <<>>, new_ids |-> <<>>,
                          updated_docs |-> <<>>, log |-> <<>>], docs)
        reached ==
            IF fault = "put" THEN st
            ELSE IF fault = "add"
                 THEN AddVecsFault(acc.st, acc.embeddings, acc.new_ids)
                 ELSE add_vecs_with_ids(acc.st, acc.embeddings, acc.new_ids)
    IN  [st |-> [reached EXCEPT !.kv = st.kv],
         err |-> IF fault = "add" THEN "RuntimeError" ELSE "lmdb.Error",
         log |-> <<fault>>]

\* ------------------------------------------------------------------ delete
\* "doc.id in self._buffer_indexer"
InBuffer(buffer, doc_id) == \E i \in 1..Len(buffer) : buffer[i].id = doc_id

RemoveAt(s, i) == [j \in 1..(Len(s) - 1) |-> IF j < i THEN s[j] ELSE s[j + 1]]

\* "del self._buffer_indexer[doc.id]" removes one document of that id; when
\* the buffer holds several, which one is the DocumentArray's choice (pick).
BufferDel(buffer, doc_id, pick) ==
    LET at == {i \in 1..Len(buffer) : buffer[i].id = doc_id}
        i == IF pick = "first"
             THEN CHOOSE x \in at : \A y \in at : x <= y
             ELSE CHOOSE x \in at : \A y \in at : x >= y
    IN  RemoveAt(buffer, i)

\* The branch of the loop of delete for a key the store held: tombstone the
\* offset the Offset Map gives, take the document out of the buffer.
DeleteFound(acc, r, doc_id, pick) ==
    IF doc_id \notin DOMAIN acc.st.doc_id_to_offset
    THEN [acc EXCEPT !.st.kv = r.kv, !.err = "KeyError",
                     !.log = Append(@, "KeyError")]
    ELSE LET idx == acc.st.doc_id_to_offset[doc_id]
         IN  IF idx >= Len(acc.st.delete_marks)
             THEN [acc EXCEPT !.st.kv = r.kv, !.err = "IndexError",
                              !.log = Append(@, "IndexError")]
             ELSE [acc EXCEPT
                      !.st.kv = r.kv,
                      !.st.delete_marks[idx + 1] = 1,
                      !.st.buffer = IF InBuffer(@, doc_id)
                                    THEN BufferDel(@, doc_id, pick) ELSE @,
                      !.log = Append(@, "deleted")]

\* DeleteItem without the test of what transaction.delete answered.
DeleteItem_Unchecked(acc, doc_id, pick) ==
    DeleteFound(acc, txn_delete(acc.st.kv, doc_id), doc_id, pick)

\* One document of the loop of delete.
DeleteItem(acc, doc_id, pick) ==
    LET r == txn_delete(acc.st.kv, doc_id)
    IN  IF r.deleted
        THEN DeleteFound(acc, r, doc_id, pick)
        ELSE [acc EXCEPT !.log = Append(@, "notfound")]

RECURSIVE DeleteLoop(_, _, _)
DeleteLoop(acc, ids, pick) ==
    IF ids = <<>> \/ acc.err # "none" THEN acc
    ELSE DeleteLoop(DeleteItem(acc, Head(ids), pick), Tail(ids), pick)

delete(st, ids, pick) ==
    TxnEnd(st, DeleteLoop([st |-> st, err |-> "none", log |-> <<>>], ids, pick))

\* ------------------------------------------------------------ construction
\* _build_indexer: scan the store in key order, one _add_vecs_with_ids call
\* per record.
RECURSIVE BuildLoop(_, _)
BuildLoop(st, keys) ==
    IF keys = <<>> THEN st
    ELSE LET k == Head(keys)
         IN  IF st.kv[k] = NoRec THEN BuildLoop(st, Tail(keys))
             ELSE BuildLoop(add_vecs_with_ids(st, <<st.kv[k].embedding>>,
                                              <<st.kv[k].id>>), Tail(keys))

build_indexer(kv) ==
    BuildLoop([kv |-> kv, vecs |-> <<>>, doc_ids |-> <<>>,
               doc_id_to_offset |-> [d \in {} |-> 0], delete_marks |-> <<>>,
               buffer |-> <<>>], IdOrder)

\* ------------------------------------------------------------------ search
\* What faiss reports in a slot it cannot fill (fewer vectors than k): label
\* -1 and, for an inner-product index, the lowest float.
PadLabel == 0 - 1
PadDist == 0 - (Scale * Scale)

\* The position ranked first among S: largest inner product, lowest offset
\* among equals.
BestOf(vecs, q, S) ==
    CHOOSE i \in S : \A j \in S :
        \/ InnerProduct(q, vecs[i]) > InnerProduct(q, vecs[j])
        \/ InnerProduct(q, vecs[i]) = InnerProduct(q, vecs[j]) /\ i <= j

RECURSIVE Ranked(_, _, _, _)
Ranked(vecs, q, S, k) ==
    IF k = 0 THEN <<>>
    ELSE IF S = {}
         THEN <<[idx |-> PadLabel, dist |-> PadDist]>> \o Ranked(vecs, q, S, k - 1)
         ELSE LET b == BestOf(vecs, q, S)
              IN  <<[idx |-> b - 1, dist |-> InnerProduct(q, vecs[b])]>>
                  \o Ranked(vecs, q, S \ {b}, k - 1)

\* IndexFlat.search(q, k) for one query: k (offset, distance) pairs, best
\* first, over every vector the engine holds.
vec_search(vecs, q, k) == Ranked(vecs, q, 1..Len(vecs), k)

\* The buffered document ranked first among S by DocumentArray.match.
NearestOf(buffer, q, S) ==
    CHOOSE i \in S : \A j \in S :
        \/ CosineDistance(q, buffer[i].embedding) < CosineDistance(q, buffer[j].embedding)
        \/ CosineDistance(q, buffer[i].embedding) = CosineDistance(q, buffer[j].embedding)
           /\ i <= j

\* A match: the matched document, the key it has in matched_docs (id, and gen
\* to tell apart the new identifiers of empty documents), its score, where it
\* came from and, for an ANN hit, the offset and the identifier it resolved to.
Match(id, gen, doc, score, src, idx, resolved) ==
    [id |-> id, gen |-> gen, doc |-> doc, score |-> score, src |-> src,
     idx |-> idx, resolved |-> resolved]

RECURSIVE BufferRanked(_, _, _, _)
BufferRanked(buffer, q, S, k) ==
    IF k = 0 \/ S = {} THEN <<>>
    ELSE LET b == NearestOf(buffer, q, S)
         IN  <<Match(buffer[b].id, 0, buffer[b],
                     CosineDistance(q, buffer[b].embedding), "buffer",
                     PadLabel, buffer[b].id)>>
             \o BufferRanked(buffer, q, S \ {b}, k - 1)

\* docs.match(self._buffer_indexer, limit=top_k, metric=...) for one query.
buffer_match(buffer, q, top_k) == BufferRanked(buffer, q, 1..Len(buffer), top_k)

\* matched_docs[m.id] = m on an OrderedDict: a key already there keeps its
\* place and takes the new value.
DictPut(d, m) ==
    IF \E i \in 1..Len(d) : d[i].id = m.id /\ d[i].gen = m.gen
    THEN [i \in 1..Len(d) |->
             IF d[i].id = m.id /\ d[i].gen = m.gen THEN m ELSE d[i]]
    ELSE Append(d, m)

\* One ANN hit of the inner loop of search; n is the hit's rank, which names
\* the new identifier Document(None) draws.
HitItem(acc, st, hit, n) ==
    IF hit.idx < 0 /\ Len(st.doc_ids) + hit.idx < 0
    THEN [acc EXCEPT !.err = "IndexError"]
    ELSE LET pos == IF hit.idx < 0 THEN Len(st.doc_ids) + hit.idx + 1
                    ELSE hit.idx + 1
             match_doc_id == st.doc_ids[pos]
             doc == get_doc(st.kv, match_doc_id)
             m == IF doc = NoRec
                  THEN Match("", n, doc, hit.dist, "ann", hit.idx, match_doc_id)
                  ELSE Match(doc.id, 0, doc, hit.dist, "ann", hit.idx, match_doc_id)
         IN  [acc EXCEPT !.matched_docs = DictPut(@, m)]

RECURSIVE HitLoop(_, _, _, _)
HitLoop(acc, st, hits, n) ==
    IF hits = <<>> \/ acc.err # "none" THEN acc
    ELSE HitLoop(HitItem(acc, st, Head(hits), n), st, Tail(hits), n + 1)

RECURSIVE MergeLoop(_, _)
MergeLoop(d, ms) ==
    IF ms = <<>> THEN d ELSE MergeLoop(DictPut(d, Head(ms)), Tail(ms))

\* sorted(matched_docs.items(), key=lambda item: item.scores[self.metric]):
\* the key function receives (id, match) pairs, and a pair has no attribute
\* scores, so sorting anything but an empty dictionary raises.
sorted_items(matched_docs) ==
    IF matched_docs = <<>> THEN [err |-> "none", out |-> <<>>]
    ELSE [err |-> "AttributeError", out |-> <<>>]

Take(s, k) == SubSeq(s, 1, IF Len(s) < k THEN Len(s) ELSE k)

\* The body of search for one query document whose match list is `attached`
\* when the loop reaches it.
SearchOne(st, q, top_k, attached) ==
    LET expand_top_k == 2 * top_k + total_deletes(st)
        hits == vec_search(st.vecs, normalize_L2(q), expand_top_k)
        ann == HitLoop([matched_docs |-> <<>>, err |-> "none"], st, hits, 1)
        merged == MergeLoop(ann.matched_docs, attached)
        srt == sorted_items(merged)
    IN  IF ann.err # "none"
        THEN [err |-> ann.err, hits |-> hits, matched_docs |-> ann.matched_docs,
              matches |-> attached]
        ELSE IF srt.err # "none"
             THEN [err |-> srt.err, hits |-> hits, matched_docs |-> merged,
                   matches |-> attached]
             ELSE [err |-> "none", hits |-> hits, matched_docs |-> merged,
                   matches |-> Take(srt.out, top_k)]

RECURSIVE SearchLoop(_, _, _, _)
SearchLoop(acc, st, queries, top_k) ==
    IF queries = <<>> \/ acc.err # "none" THEN acc
    ELSE LET attached == IF Len(st.buffer) > 0
                         THEN buffer_match(st.buffer, Head(queries), top_k)
                         ELSE <<>>
             r == SearchOne(st, Head(queries), top_k, attached)
         IN  SearchLoop([err |-> r.err, results |-> Append(acc.results, r)],
                        st, Tail(queries), top_k)

\* How the libraries take a count that is not positive. search hands its
\* counts on unchecked: IndexFlat.search(x, k) with k = 0 either fails an
\* assertion or returns an empty row, and DocumentArray.match(limit=0) either
\* raises ValueError or returns no match, depending on the release installed.
Leniency(top_k) ==
    IF top_k = 0 THEN [engine : BOOLEAN, match : BOOLEAN]
    ELSE {[engine |-> FALSE, match |-> FALSE]}

\* search: no validation of top_k (line 118), nothing to do for an empty
\* batch (119-120), then the engine call (129), the buffer match (131-133)
\* and the loop over the queries. calls lists the lookups that were answered.
search(st, queries, top_k, lenient) ==
    LET expand_top_k == 2 * top_k + total_deletes(st)
    IN  IF queries = <<>>
        THEN [err |-> "none", results |-> <<>>, calls |-> <<>>]
        ELSE IF expand_top_k = 0 /\ ~lenient.engine
        THEN [err |-> "AssertionError", results |-> <<>>, calls |-> <<>>]
        ELSE IF Len(st.buffer) > 0 /\ top_k = 0 /\ ~lenient.match
        THEN [err |-> "ValueError", results |-> <<>>,
              calls |-> <<"vec_indexer.search">>]
        ELSE LET r == SearchLoop([err |-> "none", results |-> <<>>], st,
                                 queries, top_k)
             IN  [err |-> r.err, results |-> r.results,
                  calls |-> IF Len(st.buffer) > 0
                            THEN <<"vec_indexer.search", "docs.match">>
                            ELSE <<"vec_indexer.search">>]

\* ------------------------------------------------------------ the requests
\* What the last request was and how it ended.
Last(op, docs, ids, queries, top_k, pick, err, log, results) ==
    [op |-> op, docs |-> docs, ids |-> ids, queries |-> queries,
     top_k |-> top_k, pick |-> pick, err |-> err, log |-> log,
     results |-> results]

Install(st) ==
    /\ kv_storage' = st.kv
    /\ vec_indexer' = st.vecs
    /\ doc_ids' = st.doc_ids
    /\ doc_id_to_offset' = st.doc_id_to_offset
    /\ delete_marks' = st.delete_marks
    /\ buffer_indexer' = st.buffer

\* ------------------------------------------- requests running side by side
\* The handlers when several requests are in progress at once. The threads
\* that run index requests, and the one thread that runs a search request.
Writers == {"w1", "w2"}

WriterIdle == [pc |-> "idle", docs |-> <<>>]

SearcherIdle ==
    [phase |-> "idle", q |-> <<>>, hits |-> <<>>, attached |-> <<>>, i |-> 0,
     cur |-> "", matched_docs |-> <<>>, live0 |-> {}]

\* conc.lock is the thread inside a write transaction of the store, conc.w
\* the position of each index request and conc.s that of the search request.
ConcIdle ==
    [lock |-> "none", w |-> [t \in Writers |-> WriterIdle], s |-> SearcherIdle]

\* env.begin(write=True) on an environment opened with lock=True without
\* the wait for the writer in progress.
LockFree_Unlocked(c) == TRUE

\* env.begin(write=True) on an environment opened with lock=True (line 70)
\* returns only when no other write transaction is in progress.
LockFree(c) == c.lock = "none"

\* The store the constructor may find in its workspace.
InitStores == [Ids -> IndexDocs \cup {NoRec}]

Init ==
    \E kv \in InitStores :
        /\ \A d \in Ids : kv[d] # NoRec => kv[d].id = d
        /\ LET st == build_indexer(kv)
           IN  /\ kv_storage = st.kv
               /\ vec_indexer = st.vecs
               /\ doc_ids = st.doc_ids
               /\ doc_id_to_offset = st.doc_id_to_offset
               /\ delete_marks = st.delete_marks
               /\ buffer_indexer = st.buffer
        /\ last = Last("init", <<>>, <<>>, <<>>, 0, "first", "none", <<>>, <<>>)
        /\ conc = ConcIdle

Index ==
    \E docs \in Batches(IndexDocs) :
        /\ Len(vec_indexer) + Len(docs) <= MaxTotal
        /\ \E r \in {index(State, docs)} :
               /\ Install(r.st)
               /\ UNCHANGED conc
               /\ last' = Last("index", docs, <<>>, <<>>, 0, "first", r.err,
                               r.log, <<>>)

Update ==
    \E docs \in Batches(UpdateDocs) :
        /\ Len(buffer_indexer) + Len(docs) <= MaxBuffer
        /\ \E r \in {update(State, docs)} :
               /\ Install(r.st)
               /\ UNCHANGED conc
               /\ last' = Last("update", docs, <<>>, <<>>, 0, "first", r.err,
                               r.log, <<>>)

\* The choices "del self._buffer_indexer[doc.id]" has: more than one only
\* when the buffer holds an identifier twice.
Picks ==
    IF \E i, j \in 1..Len(buffer_indexer) :
           i # j /\ buffer_indexer[i].id = buffer_indexer[j].id
    THEN {"first", "last"} ELSE {"first"}

Delete ==
    \E ids \in Batches(Ids), pick \in Picks :
        \E r \in {delete(State, ids, pick)} :
            /\ Install(r.st)
            /\ UNCHANGED conc
            /\ last' = Last("delete", <<>>, ids, <<>>, 0, pick, r.err, r.log,
                            <<>>)

\* A search request carries no query or one query.
QueryBatches == {<<>>} \cup {<<q>> : q \in Embeddings}

Search ==
    \E queries \in QueryBatches, top_k \in 0..MaxTopK :
        \E lenient \in Leniency(top_k) :
            \E r \in {search(State, queries, top_k, lenient)} :
                /\ last' = Last("search", <<>>, <<>>, queries, top_k, "first",
                                r.err, r.calls, r.results)
                /\ UNCHANGED <<kv_storage, vec_indexer, doc_ids,
                               doc_id_to_offset, delete_marks, buffer_indexer,
                               conc>>

Next == Index \/ Update \/ Delete \/ Search

Spec == Init /\ [][Next]_vars

\* An index request one of whose calls raises.
IndexFault ==
    \E docs \in Batches(IndexDocs) \ {<<>>}, fault \in IndexFaults :
        /\ Len(vec_indexer) + Len(docs) <= MaxTotal
        /\ \E r \in {index_fault(State, docs, fault)} :
               /\ Install(r.st)
               /\ UNCHANGED conc
               /\ last' = Last("index", docs, <<>>, <<>>, 0, "first", r.err,
                               r.log, <<>>)

NextFaults == Next \/ IndexFault

\* The requests, any index request of which may fail on its environment.
SpecFaults == Init /\ [][NextFaults]_vars

\* index, lines 97-104: the transaction begins and the loop puts the batch
\* into it; the puts stay private to the transaction until it commits.
IndexBegin(t) ==
    \E docs \in Batches(IndexDocs) \ {<<>>} :
        /\ conc.w[t].pc = "idle"
        /\ LockFree(conc)
        /\ Len(vec_indexer) + Len(docs) <= MaxTotal
        /\ conc' = [conc EXCEPT !.lock = t,
                                !.w[t] = [pc |-> "add", docs |-> docs]]
        /\ UNCHANGED <<kv_storage, vec_indexer, doc_ids, doc_id_to_offset,
                       delete_marks, buffer_indexer, last>>

\* _add_vecs_with_ids, line 257: the engine takes the batch.
IndexAdd(t) ==
    /\ conc.w[t].pc = "add"
    /\ vec_indexer' = vec_indexer \o
           [i \in 1..Len(conc.w[t].docs) |->
               normalize_L2(conc.w[t].docs[i].embedding)]
    /\ conc' = [conc EXCEPT !.w[t].pc = "metas"]
    /\ UNCHANGED <<kv_storage, doc_ids, doc_id_to_offset, delete_marks,
                   buffer_indexer, last>>

\* _add_vecs_with_ids, lines 258-262: total_docs is read and the loop records
\* the batch.
IndexMetas(t) ==
    /\ conc.w[t].pc = "metas"
    /\ LET docs == conc.w[t].docs
           ids == [i \in 1..Len(docs) |-> docs[i].id]
           st == AddMetaLoop(State,
                             FirstOffset(total_docs(State) - Len(docs),
                                         total_docs(State)), ids)
       IN  /\ doc_ids' = st.doc_ids
           /\ delete_marks' = st.delete_marks
           /\ doc_id_to_offset' = st.doc_id_to_offset
    /\ conc' = [conc EXCEPT !.w[t].pc = "commit"]
    /\ UNCHANGED <<kv_storage, vec_indexer, buffer_indexer, last>>

\* index, the exit of the with block of line 98: the puts are committed and
\* the next writer may begin. updated_docs is empty, so line 114 does nothing.
IndexCommit(t) ==
    /\ conc.w[t].pc = "commit"
    /\ LET acc == IndexLoop([st |-> State, embeddings |-> <<>>,
                             new_ids |-> <<>>, updated_docs |-> <<>>,
                             log |-> <<>>], conc.w[t].docs)
       IN  /\ kv_storage' = acc.st.kv
           /\ last' = Last("index", conc.w[t].docs, <<>>, <<>>, 0, "first",
                           "none", acc.log, <<>>)
    /\ conc' = [conc EXCEPT !.lock = "none", !.w[t] = WriterIdle]
    /\ UNCHANGED <<vec_indexer, doc_ids, doc_id_to_offset, delete_marks,
                   buffer_indexer>>

\* update and delete do all their work inside one write transaction; they
\* run from begin to commit once no other writer is in progress.
ConcUpdate == LockFree(conc) /\ Update

ConcDelete == LockFree(conc) /\ Delete

\* The top_k of the search request that runs beside the writers.
ConcTopK == 1

\* search, lines 118-129: expand_top_k and the engine call, under no lock.
SearchEngine ==
    \E q \in Embeddings :
        /\ conc.s.phase = "idle"
        /\ conc' = [conc EXCEPT !.s =
               [SearcherIdle EXCEPT
                   !.phase = "match",
                   !.q = q,
                   !.hits = vec_search(vec_indexer, normalize_L2(q),
                                       2 * ConcTopK + total_deletes(State)),
                   !.live0 = {d \in Ids : kv_storage[d] # NoRec}]]
        /\ UNCHANGED <<kv_storage, vec_indexer, doc_ids, doc_id_to_offset,
                       delete_marks, buffer_indexer, last>>

\* search, lines 131-133: the match against the buffer, under no lock.
SearchMatch ==
    /\ conc.s.phase = "match"
    /\ conc' = [conc EXCEPT
           !.s.phase = "lookup",
           !.s.i = 1,
           !.s.attached = IF Len(buffer_indexer) > 0
                          THEN buffer_match(buffer_indexer, conc.s.q, ConcTopK)
                          ELSE <<>>]
    /\ UNCHANGED <<kv_storage, vec_indexer, doc_ids, doc_id_to_offset,
                   delete_marks, buffer_indexer, last>>

\* self._metas['doc_ids'][idx] on a Python list: a negative idx counts from
\* the end, an idx outside the list raises IndexError.
Lookup(ids, idx) ==
    LET pos == IF idx < 0 THEN Len(ids) + idx + 1 ELSE idx + 1
    IN  IF pos \in 1..Len(ids) THEN [err |-> "none", id |-> ids[pos]]
        ELSE [err |-> "IndexError", id |-> ""]

\* How the search request ends: the result it leaves and its thread idle.
SearchEnd(err, matched_docs, matches) ==
    /\ last' = Last("search", <<>>, <<>>, <<conc.s.q>>, ConcTopK, "first", err,
                    <<>>,
                    <<[err |-> err, hits |-> conc.s.hits,
                       matched_docs |-> matched_docs, matches |-> matches]>>)
    /\ conc' = [conc EXCEPT !.s = SearcherIdle]

\* search, line 137 for the next hit, under no lock; after the last hit the
\* merge and the sort of lines 147-155.
SearchLookup ==
    /\ conc.s.phase = "lookup"
    /\ IF conc.s.i > Len(conc.s.hits)
       THEN LET merged == MergeLoop(conc.s.matched_docs, conc.s.attached)
                srt == sorted_items(merged)
            IN  SearchEnd(srt.err, merged,
                          IF srt.err = "none" THEN Take(srt.out, ConcTopK)
                          ELSE conc.s.attached)
       ELSE LET r == Lookup(doc_ids, conc.s.hits[conc.s.i].idx)
            IN  IF r.err # "none"
                THEN SearchEnd(r.err, conc.s.matched_docs, conc.s.attached)
                ELSE /\ conc' = [conc EXCEPT !.s.phase = "get", !.s.cur = r.id]
                     /\ last' = last
    /\ UNCHANGED <<kv_storage, vec_indexer, doc_ids, doc_id_to_offset,
                   delete_marks, buffer_indexer>>

\* search, lines 138-142 for the hit looked up: get_doc opens a write
\* transaction (line 206), so it waits for a writer in progress.
SearchGet ==
    /\ conc.s.phase = "get"
    /\ LockFree(conc)
    /\ LET hit == conc.s.hits[conc.s.i]
           doc == get_doc(kv_storage, conc.s.cur)
           m == IF doc = NoRec
                THEN Match("", conc.s.i, doc, hit.dist, "ann", hit.idx,
                           conc.s.cur)
                ELSE Match(doc.id, 0, doc, hit.dist, "ann", hit.idx,
                           conc.s.cur)
       IN  conc' = [conc EXCEPT !.s.phase = "lookup",
                                !.s.i = @ + 1,
                                !.s.cur = "",
                                !.s.matched_docs = DictPut(@, m)]
    /\ UNCHANGED <<kv_storage, vec_indexer, doc_ids, doc_id_to_offset,
                   delete_marks, buffer_indexer, last>>

NextWriters ==
    \/ \E t \in Writers :
           IndexBegin(t) \/ IndexAdd(t) \/ IndexMetas(t) \/ IndexCommit(t)
    \/ ConcUpdate
    \/ ConcDelete

\* The mutation requests as threads that take their steps in any order.
SpecWriters == Init /\ [][NextWriters]_vars

NextConc ==
    \/ NextWriters
    \/ SearchEngine
    \/ SearchMatch
    \/ SearchLookup
    \/ SearchGet

\* The mutation requests and a search request as threads that take their
\* steps in any order.
SpecConc == Init /\ [][NextConc]_vars

\* The embedding every index request sends for an identifier.
EmbeddingOf(doc_id) == (CHOOSE d \in IndexDocs : d.id = doc_id).embedding

\* ---------------------------------------------------- observing the state
\* The identifiers whose record is in the Document Store.
Live == {d \in Ids : kv_storage[d] # NoRec}

\* The identifiers that were indexed and whose record has since been deleted.
Deleted == {d \in Range(doc_ids) : kv_storage[d] = NoRec}

BufferedIds == {buffer_indexer[i].id : i \in 1..Len(buffer_indexer)}

Min(x, y) == IF x < y THEN x ELSE y

\* ------------------------------------------------------------------ claims

\* C1 (delete exclusion): once delete(X) has succeeded, a later search with
\* top_k >= 1 produces a match list, and neither that list nor the candidates
\* it is cut from hold a match that an ANN hit on X's vector gave rise to; with
\* no live document left the match list is empty.
C1_DeleteExclusion ==
    (last.op = "search" /\ Deleted # {}) =>
        \A i \in 1..Len(last.results) :
            LET r == last.results[i]
            IN  /\ r.err = "none"
                /\ \A j \in 1..Len(r.matched_docs) :
                       r.matched_docs[j].resolved \notin Deleted
                /\ \A j \in 1..Len(r.matches) :
                       r.matches[j].resolved \notin Deleted
                /\ Live = {} => r.matches = <<>>

\* C2 (write-buffer override): while X is in the Write Buffer, every candidate
\* and every match for X in a search result comes from the Write Buffer, with
\* the buffered record and the distance of the query to the updated vector; no
\* ANN hit that resolves to X is a candidate.
C2_BufferOverride ==
    last.op = "search" =>
        \A i \in 1..Len(last.results) :
            LET r == last.results[i]
                q == last.queries[i]
                Ok(m) == m.resolved \in BufferedIds =>
                             /\ m.src = "buffer"
                             /\ m.doc \in Range(buffer_indexer)
                             /\ m.score = CosineDistance(q, m.doc.embedding)
            IN  /\ \A j \in 1..Len(r.matched_docs) : Ok(r.matched_docs[j])
                /\ \A j \in 1..Len(r.matches) : Ok(r.matches[j])

\* Whether every document of an index batch is new to the store and named
\* once in the batch.
AllNew(docs) ==
    /\ \A i \in 1..Len(docs) : kv_storage[docs[i].id] = NoRec
    /\ \A i, j \in 1..Len(docs) : docs[i].id = docs[j].id => i = j

\* C3 (offset monotonicity): an index batch of new documents records for its
\* i-th document the offset (engine size before the batch) + i, counting from
\* 0, which is where that document's vector sits in the engine.
C3_OffsetIsPosition ==
    [][(last'.op = "index" /\ AllNew(last'.docs)) =>
          \A i \in 1..Len(last'.docs) :
              /\ last'.docs[i].id \in DOMAIN doc_id_to_offset'
              /\ doc_id_to_offset'[last'.docs[i].id] = Len(vec_indexer) + (i - 1)
              /\ vec_indexer'[doc_id_to_offset'[last'.docs[i].id] + 1]
                     = normalize_L2(last'.docs[i].embedding)]_vars

\* C4: every live document has exactly one offset that is not tombstoned, and
\* the two directions of the Offset Map agree on it.
C4_OffsetMapAgrees ==
    \A d \in Live :
        /\ d \in DOMAIN doc_id_to_offset
        /\ doc_id_to_offset[d] + 1 \in 1..Len(doc_ids)
        /\ doc_ids[doc_id_to_offset[d] + 1] = d
        /\ Cardinality({i \in 1..Len(doc_ids) :
                           doc_ids[i] = d /\ delete_marks[i] = 0}) = 1

\* C5 (tombstone consistency): size equals the number of records in the
\* Document Store.
C5_SizeIsLiveCount == size(State) = Cardinality(Live)

\* The documents of an index batch whose identifier the store lacks when the
\* loop reaches them.
RECURSIVE NewIn(_, _)
NewIn(docs, seen) ==
    IF docs = <<>> THEN <<>>
    ELSE IF Head(docs).id \in seen THEN NewIn(Tail(docs), seen)
         ELSE <<Head(docs)>> \o NewIn(Tail(docs), seen \cup {Head(docs).id})

\* C6: indexing an identifier the store holds appends no vector, assigns no
\* offset and changes no Offset Map entry of that identifier, and puts the new
\* record in the Write Buffer; only absent identifiers get a vector.
C6_ReindexIsUpdate ==
    [][last'.op = "index" =>
          /\ Len(vec_indexer') = Len(vec_indexer) + Len(NewIn(last'.docs, Live))
          /\ \A i \in 1..Len(last'.docs) :
                 LET d == last'.docs[i]
                 IN  d.id \in Live =>
                         /\ doc_id_to_offset'[d.id] = doc_id_to_offset[d.id]
                         /\ \E j \in 1..Len(buffer_indexer') :
                                buffer_indexer'[j].id = d.id]_vars

\* C7 (top-k truncation): each query's match list has exactly
\* min(top_k, number of live documents) entries, none repeated.
C7_TopK ==
    last.op = "search" =>
        \A i \in 1..Len(last.queries) :
            /\ i <= Len(last.results)
            /\ Len(last.results[i].matches) = Min(last.top_k, Cardinality(Live))
            /\ \A j, k \in 1..Len(last.results[i].matches) :
                   last.results[i].matches[j].id = last.results[i].matches[k].id
                       => j = k

\* C8: search attaches to every query a match list in non-decreasing order of
\* score, with each identifier at most once, cut from the merged candidates.
C8_SortedDistinct ==
    last.op = "search" =>
        \A i \in 1..Len(last.queries) :
            /\ i <= Len(last.results)
            /\ last.results[i].err = "none"
            /\ LET ms == last.results[i].matches
               IN  /\ \A j, k \in 1..Len(ms) : j < k => ms[j].score <= ms[k].score
                   /\ \A j, k \in 1..Len(ms) :
                          (ms[j].id = ms[k].id /\ ms[j].gen = ms[k].gen) => j = k
                   /\ Range(ms) \subseteq Range(last.results[i].matched_docs)

\* C9: in a delete batch an identifier the store does not hold raises no
\* error and changes nothing: the request ends as it would without those
\* identifiers, so the identifiers after them are processed; a batch of
\* unknown identifiers alone ends without error and leaves every structure
\* as it was.
C9_DeleteNotFound ==
    [][last'.op = "delete" =>
          LET ids == last'.ids
              known == SelectSeq(ids, LAMBDA d : kv_storage[d] # NoRec)
              ref == delete(State, known, last'.pick)
          IN  /\ State' = ref.st
              /\ last'.err = ref.err
              /\ last'.err = "none" => Len(last'.log) = Len(ids)
              /\ known = <<>> => (last'.err = "none" /\ State' = State)
              /\ \A i \in 1..Len(last'.log) :
                     (kv_storage[ids[i]] = NoRec) => last'.log[i] = "notfound"]_vars

\* A delete batch in which an unknown identifier was followed by one that was
\* deleted.
C9_Witness ==
    /\ last.op = "delete"
    /\ last.err = "none"
    /\ \E i, j \in 1..Len(last.log) :
           i < j /\ last.log[i] = "notfound" /\ last.log[j] = "deleted"

\* C10: an update batch with an identifier the store does not hold raises at
\* the first such document: that identifier is neither in the store nor added
\* to the Write Buffer afterwards, and no later document of the batch is
\* processed (the buffer gains exactly the documents before it, and the store
\* record of every later document is as before).
C10_UpdateUnknownStops ==
    [][last'.op = "update" =>
          LET docs == last'.docs
              missing == {i \in 1..Len(docs) : kv_storage[docs[i].id] = NoRec}
          IN  missing # {} =>
                  LET k == CHOOSE x \in missing : \A y \in missing : x <= y
                  IN  /\ last'.err = "ValueError"
                      /\ Len(last'.log) = k
                      /\ kv_storage'[docs[k].id] = NoRec
                      /\ buffer_indexer' = buffer_indexer \o SubSeq(docs, 1, k - 1)
                      /\ \A j \in (k + 1)..Len(docs) :
                             kv_storage'[docs[j].id] = kv_storage[docs[j].id]]_vars

\* An update batch that stopped at an unknown identifier with a document
\* still to come.
C10_Witness ==
    /\ last.op = "update"
    /\ last.err = "ValueError"
    /\ Len(last.log) < Len(last.docs)
    /\ kv_storage[last.docs[Len(last.log) + 1].id] # NoRec

\* C16 (round trip): after an index or update request that ended without
\* error, get_doc of each identifier of the batch returns the document the
\* batch wrote last for it, with the embedding as it was sent (not
\* normalised); get_doc of every other live identifier returns what it
\* returned before the request.
C16_RoundTrip ==
    [][LET wrote == last'.op \in {"index", "update"} /\ last'.err = "none"
           docs == last'.docs
       IN  /\ wrote =>
                  \A i \in 1..Len(docs) :
                      (\A j \in (i + 1)..Len(docs) : docs[j].id # docs[i].id)
                          => get_doc(kv_storage', docs[i].id) = docs[i]
           /\ \A d \in Ids :
                  (/\ kv_storage'[d] # NoRec
                   /\ ~(wrote /\ \E i \in 1..Len(docs) : docs[i].id = d))
                      => get_doc(kv_storage', d) = kv_storage[d]]_vars

\* An index request stored a document whose embedding is not of unit length,
\* and get_doc returns it as sent.
C16_Witness ==
    /\ last.op = "index"
    /\ last.err = "none"
    /\ \E i \in 1..Len(last.docs) :
           /\ ISqrt(last.docs[i].embedding[1] * last.docs[i].embedding[1]
                    + last.docs[i].embedding[2] * last.docs[i].embedding[2]) # 1
           /\ get_doc(kv_storage, last.docs[i].id) = last.docs[i]

\* C17: delete(X) for a live X ends without error, sets the tombstone bit at
\* an offset where a vector of X sits and no other bit, leaves the engine and
\* the offset -> identifier list as they were, and leaves X out of the buffer.
C17_DeleteFrame ==
    [][(/\ last'.op = "delete"
        /\ Len(last'.ids) = 1
        /\ kv_storage[last'.ids[1]] # NoRec) =>
          LET X == last'.ids[1]
          IN  /\ last'.err = "none"
              /\ \E p \in 1..Len(doc_ids) :
                     /\ doc_ids[p] = X
                     /\ delete_marks[p] = 0
                     /\ delete_marks' = [delete_marks EXCEPT ![p] = 1]
              /\ vec_indexer' = vec_indexer
              /\ doc_ids' = doc_ids
              /\ ~InBuffer(buffer_indexer', X)]_vars

\* C18: the Write Buffer holds at most one record per identifier.
C18_BufferOnePerId ==
    \A i, j \in 1..Len(buffer_indexer) :
        buffer_indexer[i].id = buffer_indexer[j].id => i = j

\* C19 (rebuild at construction): the engine holds one vector per stored
\* record, the Offset Map maps exactly the stored identifiers, each to the
\* offset where its vector sits, no tombstone is set and the buffer is empty.
C19_Rebuild ==
    last.op = "init" =>
        /\ Len(vec_indexer) = Cardinality(Live)
        /\ DOMAIN doc_id_to_offset = Live
        /\ \A d \in Live :
               /\ doc_id_to_offset[d] + 1 \in 1..Len(vec_indexer)
               /\ doc_ids[doc_id_to_offset[d] + 1] = d
               /\ vec_indexer[doc_id_to_offset[d] + 1]
                      = normalize_L2(kv_storage[d].embedding)
        /\ \A p \in 1..Len(delete_marks) : delete_marks[p] = 0
        /\ buffer_indexer = <<>>

\* C20: every record in the Write Buffer is the record the Document Store
\* holds for its identifier.
C20_BufferMatchesStore ==
    \A i \in 1..Len(buffer_indexer) :
        kv_storage[buffer_indexer[i].id] = buffer_indexer[i]

\* C11: a search request with top_k <= 0 that carries a query ends in an
\* error, is answered by neither the ANN engine nor the Write Buffer, and
\* attaches no match list.
C11_TopKRejected ==
    (/\ last.op = "search"
     /\ last.top_k <= 0
     /\ last.queries # <<>>) =>
        /\ last.err # "none"
        /\ last.log = <<>>
        /\ last.results = <<>>

\* C12: an index batch whose Document Store transaction does not commit
\* leaves the engine, the offset -> identifier list, the Offset Map and the
\* tombstones as they were.
C12_FailedIndexTxn ==
    [][(last'.op = "index" /\ last'.err = "lmdb.Error") =>
           /\ vec_indexer' = vec_indexer
           /\ doc_ids' = doc_ids
           /\ doc_id_to_offset' = doc_id_to_offset
           /\ delete_marks' = delete_marks]_vars

\* C13: the offset -> identifier list and the tombstone list are as long as
\* the engine holds vectors, in every state, a failed engine add included.
C13_MapSizeIsEngineSize ==
    /\ Len(doc_ids) = Len(vec_indexer)
    /\ Len(delete_marks) = Len(vec_indexer)

\* The last request was an index batch whose engine add raised.
C13_Witness ==
    /\ last.op = "index"
    /\ last.err = "RuntimeError"
    /\ last.docs # <<>>
    /\ Len(doc_ids) = Len(vec_indexer)

\* C14: a search that runs beside a mutation sees the state before it or the
\* state after it: the engine never hands it an offset that the offset ->
\* identifier list does not have yet, and no hit of it resolves to a record
\* that was deleted after the search began.
C14_SearchSeesAtomicState ==
    conc.s.phase # "idle" =>
        /\ \A h \in 1..Len(conc.s.hits) :
               conc.s.hits[h].idx < Len(doc_ids)
        /\ \A j \in 1..Len(conc.s.matched_docs) :
               conc.s.matched_docs[j].resolved \in conc.s.live0
                   => conc.s.matched_docs[j].doc # NoRec

\* C15: no two mutation requests are inside their write transactions at
\* once, and the offset -> identifier list names, position by position, the
\* identifiers in the order the engine holds their vectors.
C15_WritersExclusive ==
    /\ \A t, u \in Writers :
           (conc.w[t].pc # "idle" /\ conc.w[u].pc # "idle") => t = u
    /\ Len(doc_ids) <= Len(vec_indexer)
    /\ \A p \in 1..Len(doc_ids) :
           vec_indexer[p] = normalize_L2(EmbeddingOf(doc_ids[p]))

\* An index batch is between its engine append and its offset assignment
\* after another index batch has committed.
C15_Witness ==
    /\ \E t \in Writers : conc.w[t].pc = "metas"
    /\ Len(doc_ids) < Len(vec_indexer)
    /\ last.op = "index"
    /\ C15_WritersExclusive

====
